---- MODULE Spec2Model ----
(***************************************************************************)
(* Model of the monitoring engine (packages/engine/src/index.ts): the      *)
(* discovery loop, the per-monitor self-rescheduling timer chain, the      *)
(* check-and-record step and the SIGINT handler, run on Node's single      *)
(* threaded event loop.  One action is one run of a callback or of an      *)
(* async continuation between two awaits.  The monitor store is an         *)
(* external collaborator: its edits are environment actions and its        *)
(* reads may succeed or fail.  The runners (runners/website-monitor.ts,    *)
(* ping-monitor) and the routes of the backend (monitor, badge, calendar)  *)
(* are modelled as calls run on their own: the arguments and the answers   *)
(* of the network are drawn at the start and the call runs to its return.  *)
(***************************************************************************)
EXTENDS Integers, Sequences, FiniteSets, TLC

\* ---------------------------------------------------------------- bounds
NumMonitors == 2      \* monitor ids 1..NumMonitors
MaxListings == 1      \* outstanding find() calls of the discovery loop in Spec
MaxOverlap == 2       \* the same in SpecOverlap, where a listing outlasts the interval
MaxStatuses == 2      \* firings are started while fewer records than this can result
MaxKeywordLen == 2    \* characters of a keyword and of a response body
MaxKeywords == 2      \* keywords of a website monitor
MaxDayChecks == 21    \* checks of a monitor on its busiest day

\* ------------------------------------------------------ program constants
MONITOR_DISCOVERY_INTERVAL == 10 * 1000
MsPerSecond == 1000
MinPeriodicity == 5
MaxPeriodicity == 300
MaxPort == 65535
HoursPerDay == 24

\* ------------------------------------------------------------ data model
Ids == 1..NumMonitors
Periods == {MinPeriodicity, MaxPeriodicity}
Types == {"ping", "website"}
\* the type of a monitor is set when it is created and never edited; the
\* model fixes it per id
TypeOf(m) == IF m % 2 = 1 THEN "ping" ELSE "website"
\* the periodicities the owner gives a monitor: monitor 1 is edited between
\* the two ends of the valid range, the others keep one value
PeriodsOf(m) == IF m = 1 THEN Periods ELSE {MaxPeriodicity}
\* host, port, url, checkStatus and keywords of a row are one value, fields:
\* the revision of the type-specific columns, FirstFields when the row is created
FirstFields == 1
FieldRevisions == {FirstFields, FirstFields + 1}
Monitor(m) == [periodicity : PeriodsOf(m), type : {TypeOf(m)}, fields : {FirstFields}]
NoDef == [periodicity |-> 0, type |-> "none", fields |-> 0]
\* the definition of a monitor that is created once and not edited
PeriodOnly(m) ==
  [periodicity |-> MaxPeriodicity, type |-> TypeOf(m), fields |-> FirstFields]
\* a type column holding a value outside the enum of the entity
CorruptType == "other"
StatusType == {"succeeded", "failed"}

VARIABLES
  store,           \* Monitor table: id -> definition, NoDef when no row
  deleted,         \* ids whose row was deleted (uuid keys are never reused)
  statuses,        \* MonitorStatus table: sequence of saved records
  activeMonitors,  \* Map<string, NodeJS.Timeout>: id -> timer handle
  timers,          \* pending setTimeout timers
  firings,         \* runAndReschedule invocations suspended at an await
  listings,        \* discoverMonitors invocations awaiting find()
  startPc,         \* position of startEngine
  proc,            \* "up", "closing" (SIGINT handler awaiting destroy), "exited"
  exitCode,        \* argument of process.exit, -1 while running
  connected,       \* AppDataSource.isInitialized
  lastRead,        \* history: per id, the periodicity the engine last read
  gone,            \* history: per id, "armed" once deleted while Armed,
                   \* "settled" once a firing or a listing has seen it gone
  last,            \* history: the engine step taken last, "" before the first
  call,            \* the arguments and the environment of a runner or of a
                   \* route handler that is run on its own, NoCall otherwise
  frame            \* its local variables, its position and what it returns
\* The history variables, and the fields armed and from of firings and timers,
\* are not read by any action.  They are recorded by the actions taken with
\* hist = TRUE and stay at their initial values otherwise.

vars == <<store, deleted, statuses, activeMonitors, timers, firings, listings,
          startPc, proc, exitCode, connected, lastRead, gone, last, call, frame>>

engineVars == <<store, deleted, statuses, activeMonitors, timers, firings,
                listings, startPc, proc, exitCode, connected, lastRead, gone, last>>
callVars == <<call, frame>>
NoCall == [op |-> "none"]
NoFrame == [pc |-> "none"]

storeVars == <<store, deleted>>
procVars == <<startPc, proc, exitCode, connected>>

Range(f) == {f[x] : x \in DOMAIN f}

\* Map.set(k, v)
MapSet(map, k, v) == [x \in (DOMAIN map) \cup {k} |-> IF x = k THEN v ELSE map[x]]

\* Map.delete(k)
MapDelete(map, k) == [x \in (DOMAIN map) \ {k} |-> map[x]]

\* A timer object is identified by reference: a new one differs from every
\* handle that is pending, held in the map or owned by a running callback.
UsedHandles(map, tms) ==
  Range(map) \cup {t.h : t \in tms} \cup {f.h : f \in firings}

NewHandle(map, tms) ==
  CHOOSE h \in 1..(Cardinality(UsedHandles(map, tms)) + 1) :
    /\ h \notin UsedHandles(map, tms)
    /\ \A g \in 1..(h - 1) : g \in UsedHandles(map, tms)

\* setTimeout(() => runAndReschedule(id), delay) inside the closure created
\* by scheduleMonitor(monitor); from is the delay of the timer whose firing
\* armed this one (history, -1 when none)
NewTimer(map, tms, id, delay, monitor, from) ==
  [h |-> NewHandle(map, tms), id |-> id, delay |-> delay, monitor |-> monitor,
   from |-> from]

\* clearTimeout(handle)
ClearTimeout(tms, handle) == {t \in tms : t.h # handle}

\* the engine and the tables before the engine starts
EngineInit ==
  /\ store = [m \in Ids |-> NoDef]
  /\ deleted = {}
  /\ statuses = <<>>
  /\ activeMonitors = <<>>
  /\ timers = {}
  /\ firings = {}
  /\ listings = {}
  /\ startPc = "connecting"
  /\ proc = "up"
  /\ exitCode = -1
  /\ connected = FALSE
  /\ lastRead = [m \in Ids |-> 0]
  /\ gone = [m \in Ids |-> "no"]
  /\ last = ""

Init ==
  /\ EngineInit
  /\ call = NoCall
  /\ frame = NoFrame

\* the history of the step that is taken
Note(hist, step) ==
  /\ last' = IF hist THEN step ELSE ""
  /\ UNCHANGED callVars

\* ------------------------------------------------------------- scheduler
\* variant: the first run waits one period
ScheduleMonitorAfterPeriod(st, id, monitor) ==
  LET cleared == IF id \in DOMAIN st.map
                 THEN ClearTimeout(st.tms, st.map[id])
                 ELSE st.tms
      t == NewTimer(st.map, cleared, id, monitor.periodicity * MsPerSecond,
                    monitor, -1)
  IN  [map |-> MapSet(st.map, id, t.h), tms |-> cleared \cup {t}]

\* scheduleMonitor(monitor): clear an existing timeout of the id, then arm a
\* zero-delay timer whose callback closes over the listed definition
ScheduleMonitor(st, id, monitor) ==
  LET cleared == IF id \in DOMAIN st.map
                 THEN ClearTimeout(st.tms, st.map[id])
                 ELSE st.tms
      t == NewTimer(st.map, cleared, id, 0, monitor, -1)
  IN  [map |-> MapSet(st.map, id, t.h), tms |-> cleared \cup {t}]

\* variant: the firing uses the definition its closure was scheduled with
FindOneCached(f) == IF store[f.id] = NoDef THEN NoDef ELSE f.monitor

\* repo.findOne({ where: { id: monitorId } }) resolving: the row as it is now
FindOne(f) == store[f.id]

\* variant: every type but ping is taken for a website check
RunnerDefaultsToWebsite(monitor) ==
  IF monitor.type = "ping" THEN "runPingMonitor" ELSE "runWebsiteMonitor"

\* the dispatch of runMonitorCheck on monitor.type; "none" for an unknown type
Runner(monitor) ==
  IF monitor.type = "ping" THEN "runPingMonitor"
  ELSE IF monitor.type = "website" THEN "runWebsiteMonitor"
  ELSE "none"

\* history: the checks of one monitor are numbered in the order they start;
\* a check that starts gets a number above those of the monitor's checks in
\* flight and of its records, so of two numbers the smaller is of the check
\* that started first.  Numbers from MaxStatuses on are not told apart.
SetMax(S) == CHOOSE x \in S : \A y \in S : y <= x
NextBegan(id) ==
  LET n == 1 + SetMax({0} \cup {g.began : g \in {x \in firings : x.id = id}}
                          \cup {statuses[i].began :
                                  i \in {k \in 1..Len(statuses) :
                                           statuses[k].monitorId = id}})
  IN  IF n < MaxStatuses THEN n ELSE MaxStatuses

\* @CreateDateColumn() startTime: the database sets it when the row is
\* inserted, so the i-th row of the table has the i-th reading of its clock
StartTime(i) == i

\* variant: the periodicity is taken for milliseconds
RearmDelayUnscaled(current) == current.periodicity

\* delay of the timer armed after a completed check: current.periodicity * 1000
RearmDelay(current) == current.periodicity * MsPerSecond

\* delay of the timer armed in the catch branch: monitor.periodicity
RetryDelay(monitor) == monitor.periodicity

\* setTimeout(...) ; activeMonitors.set(monitorId, timeout) ending a firing
Rearm(f, delay) ==
  LET t == NewTimer(activeMonitors, timers, f.id, delay, f.monitor, f.armed)
  IN  /\ timers' = timers \cup {t}
      /\ activeMonitors' = MapSet(activeMonitors, f.id, t.h)
      /\ firings' = firings \ {f}

\* a timer fires: runAndReschedule starts and awaits repo.findOne; armed is
\* the delay the fired timer was armed with (history)
Fire(t, hist) ==
  /\ proc # "exited"
  /\ Len(statuses) + Cardinality(firings) < MaxStatuses
  /\ t \in timers
  /\ timers' = timers \ {t}
  /\ firings' = firings \cup
       {[h |-> t.h, id |-> t.id, monitor |-> t.monitor, pc |-> "reading",
         current |-> NoDef, runner |-> "none", status |-> "none", began |-> 0,
         armed |-> IF hist THEN t.delay ELSE -1]}
  /\ UNCHANGED <<storeVars, procVars, statuses, activeMonitors, listings,
                 lastRead, gone>>

\* variant: the check runs on the definition the closure was scheduled with
\* and only the next delay comes from the row that was read
ReadReturnFoundChecksScheduled(f, hist) ==
  /\ proc # "exited"
  /\ f \in firings
  /\ f.pc = "reading"
  /\ FindOne(f) # NoDef
  /\ lastRead' = IF hist
                  THEN [lastRead EXCEPT ![f.id] = FindOne(f).periodicity]
                  ELSE lastRead
  /\ IF Runner(f.monitor) # "none"
     THEN /\ firings' = (firings \ {f}) \cup
                {[f EXCEPT !.pc = "checking",
                           !.current = [f.monitor EXCEPT
                                          !.periodicity = FindOne(f).periodicity],
                           !.runner = Runner(f.monitor),
                           !.began = IF hist THEN NextBegan(f.id) ELSE 0]}
          /\ UNCHANGED <<timers, activeMonitors>>
     ELSE Rearm(f, RearmDelay(FindOne(f)))
  /\ UNCHANGED <<storeVars, procVars, statuses, listings, gone>>

\* findOne returns the row: runMonitorCheck(current) starts the runner of
\* current.type on current; an unknown type is logged and the firing
\* re-arms at once
ReadReturnFound(f, hist) ==
  /\ proc # "exited"
  /\ f \in firings
  /\ f.pc = "reading"
  /\ FindOne(f) # NoDef
  /\ lastRead' = IF hist
                  THEN [lastRead EXCEPT ![f.id] = FindOne(f).periodicity]
                  ELSE lastRead
  /\ IF Runner(FindOne(f)) # "none"
     THEN /\ firings' = (firings \ {f}) \cup
                {[f EXCEPT !.pc = "checking", !.current = FindOne(f),
                           !.runner = Runner(FindOne(f)),
                           !.began = IF hist THEN NextBegan(f.id) ELSE 0]}
          /\ UNCHANGED <<timers, activeMonitors>>
     ELSE Rearm(f, RearmDelay(FindOne(f)))
  /\ UNCHANGED <<storeVars, procVars, statuses, listings, gone>>

\* variant: a missing row empties the map
ReadReturnNotFoundClearsMap(f, hist) ==
  /\ proc # "exited"
  /\ f \in firings
  /\ f.pc = "reading"
  /\ FindOne(f) = NoDef
  /\ activeMonitors' = <<>>
  /\ firings' = firings \ {f}
  /\ UNCHANGED <<storeVars, procVars, statuses, timers, listings, lastRead,
                 gone>>

\* variant: a missing row is retried like a failed read
ReadReturnNotFoundRetries(f, hist) ==
  /\ proc # "exited"
  /\ f \in firings
  /\ f.pc = "reading"
  /\ FindOne(f) = NoDef
  /\ Rearm(f, RetryDelay(f.monitor))
  /\ UNCHANGED <<storeVars, procVars, statuses, listings, lastRead, gone>>

\* findOne returns null: the monitor was deleted, the chain stops
ReadReturnNotFound(f, hist) ==
  /\ proc # "exited"
  /\ f \in firings
  /\ f.pc = "reading"
  /\ FindOne(f) = NoDef
  /\ activeMonitors' = MapDelete(activeMonitors, f.id)
  /\ firings' = firings \ {f}
  /\ gone' = IF hist /\ gone[f.id] = "armed"
              THEN [gone EXCEPT ![f.id] = "settled"]
              ELSE gone
  /\ UNCHANGED <<storeVars, procVars, statuses, timers, listings, lastRead>>

\* variant: the rejection is not caught and ends the process
ReadReturnErrorExits(f) ==
  /\ proc # "exited"
  /\ f \in firings
  /\ f.pc = "reading"
  /\ proc' = "exited"
  /\ exitCode' = 1
  /\ UNCHANGED <<storeVars, statuses, activeMonitors, timers, firings,
                 listings, startPc, connected, lastRead, gone>>

\* variant: the catch branch logs the error and arms nothing
ReadReturnErrorStops(f) ==
  /\ proc # "exited"
  /\ f \in firings
  /\ f.pc = "reading"
  /\ firings' = firings \ {f}
  /\ UNCHANGED <<storeVars, procVars, statuses, activeMonitors, timers,
                 listings, lastRead, gone>>

\* findOne rejects: the catch branch arms a retry timer
ReadReturnError(f) ==
  /\ proc # "exited"
  /\ f \in firings
  /\ f.pc = "reading"
  /\ Rearm(f, RetryDelay(f.monitor))
  /\ UNCHANGED <<storeVars, procVars, statuses, listings, lastRead, gone>>

\* the runner resolves with a MonitorStatus and runMonitorCheck awaits save;
\* both runners catch every error of the probe, so the await never rejects
CheckReturn(f, s) ==
  /\ proc # "exited"
  /\ f \in firings
  /\ f.pc = "checking"
  /\ firings' = (firings \ {f}) \cup {[f EXCEPT !.pc = "saving", !.status = s]}
  /\ UNCHANGED <<storeVars, procVars, statuses, activeMonitors, timers,
                 listings, lastRead, gone>>

\* variant: save cascades to the monitor relation and writes the row back
\* as the firing read it
SaveReturnCascades(f) ==
  /\ proc # "exited"
  /\ f \in firings
  /\ f.pc = "saving"
  /\ statuses' = Append(statuses, [monitorId |-> f.id, status |-> f.status,
                                   began |-> f.began])
  /\ store' = [store EXCEPT ![f.id] = f.current]
  /\ Rearm(f, RearmDelay(f.current))
  /\ UNCHANGED <<deleted, procVars, listings, lastRead, gone>>

\* variant: save writes over the record the monitor already has, as it
\* would for a status built with the id of an earlier one
SaveReturnUpdates(f) ==
  /\ proc # "exited"
  /\ f \in firings
  /\ f.pc = "saving"
  /\ statuses' =
       LET new == [monitorId |-> f.id, status |-> f.status, began |-> f.began]
           old == {i \in 1..Len(statuses) : statuses[i].monitorId = f.id}
       IN IF old = {} THEN Append(statuses, new)
          ELSE [statuses EXCEPT ![SetMax(old)] = new]
  /\ Rearm(f, RearmDelay(f.current))
  /\ UNCHANGED <<storeVars, procVars, listings, lastRead, gone>>

\* save resolves: the record is in the table, the firing re-arms
SaveReturn(f) ==
  /\ proc # "exited"
  /\ f \in firings
  /\ f.pc = "saving"
  /\ statuses' = Append(statuses, [monitorId |-> f.id, status |-> f.status,
                                   began |-> f.began])
  /\ Rearm(f, RearmDelay(f.current))
  /\ UNCHANGED <<storeVars, procVars, listings, lastRead, gone>>

\* variant: the rejection leaves runMonitorCheck and the retry timer of the
\* catch branch of runAndReschedule is armed
SaveThrowsToCaller(f) ==
  /\ proc # "exited"
  /\ f \in firings
  /\ f.pc = "saving"
  /\ Rearm(f, RetryDelay(f.monitor))
  /\ UNCHANGED <<storeVars, procVars, statuses, listings, lastRead, gone>>

\* save rejects: runMonitorCheck logs the error, the firing re-arms
SaveThrows(f) ==
  /\ proc # "exited"
  /\ f \in firings
  /\ f.pc = "saving"
  /\ Rearm(f, RearmDelay(f.current))
  /\ UNCHANGED <<storeVars, procVars, statuses, listings, lastRead, gone>>

\* ------------------------------------------------------------- discovery
Listed(list) == {m \in Ids : list[m] # NoDef}

\* variant: every listed monitor is scheduled again, armed or not
RECURSIVE ScheduleNewOrUpdated(_, _, _, _)
ScheduleNewOrUpdated(st, list, currentMonitorIds, m) ==
  IF m > NumMonitors THEN st
  ELSE ScheduleNewOrUpdated(IF list[m] # NoDef
                            THEN ScheduleMonitor(st, m, list[m])
                            ELSE st,
                            list, currentMonitorIds, m + 1)

\* first loop of discoverMonitors: schedule every listed id that is not in
\* the copy of the key set taken when find() returned
RECURSIVE ScheduleNew(_, _, _, _)
ScheduleNew(st, list, currentMonitorIds, m) ==
  IF m > NumMonitors THEN st
  ELSE ScheduleNew(IF list[m] # NoDef /\ m \notin currentMonitorIds
                   THEN ScheduleMonitor(st, m, list[m])
                   ELSE st,
                   list, currentMonitorIds, m + 1)

\* variant: the timers are cleared and the entries stay
CleanUpKeepsEntry(st, removed) ==
  [map |-> st.map,
   tms |-> {t \in st.tms : t.h \notin {st.map[x] : x \in removed}}]

\* second loop: clearTimeout(activeMonitors.get(id)); activeMonitors.delete(id)
\* for every id left in currentMonitorIds
CleanUp(st, removed) ==
  [map |-> [x \in (DOMAIN st.map) \ removed |-> st.map[x]],
   tms |-> {t \in st.tms : t.h \notin {st.map[x] : x \in removed}}]

\* the body of discoverMonitors after find() returned list
Reconcile(map, tms, list) ==
  LET currentMonitorIds == DOMAIN map
      scheduled == ScheduleNew([map |-> map, tms |-> tms], list,
                               currentMonitorIds, 1)
  IN  CleanUp(scheduled, currentMonitorIds \ Listed(list))

\* after the initial discovery startEngine installs the interval
AfterDiscovery == IF startPc = "initialDiscovery" THEN "started" ELSE startPc

\* outstanding find() calls are told apart by a slot number
FreeSlot ==
  CHOOSE n \in 1..(Cardinality(listings) + 1) :
    /\ n \notin {l.n : l \in listings}
    /\ \A k \in 1..(n - 1) : k \in {l.n : l \in listings}

\* setInterval callback: discoverMonitors starts and awaits find(), which
\* reads the table as it is now; the interval does not wait for an earlier
\* tick, so up to maxOutstanding listings are awaited at once
DiscoveryTick(maxOutstanding) ==
  /\ proc # "exited"
  /\ startPc = "started"
  /\ Cardinality(listings) < maxOutstanding
  /\ listings' = listings \cup {[n |-> FreeSlot, list |-> store]}
  /\ UNCHANGED <<storeVars, procVars, statuses, activeMonitors, timers,
                 firings, lastRead, gone>>

\* find() resolves with the rows it read
DiscoveryReturn(l, hist) ==
  /\ proc # "exited"
  /\ l \in listings
  /\ LET r == Reconcile(activeMonitors, timers, l.list)
     IN  /\ activeMonitors' = r.map
         /\ timers' = r.tms
  /\ lastRead' = [m \in Ids |-> IF hist /\ l.list[m] # NoDef
                                 THEN l.list[m].periodicity
                                 ELSE lastRead[m]]
  /\ gone' = [m \in Ids |-> IF hist /\ gone[m] = "armed" /\ l.list[m] = NoDef
                             THEN "settled" ELSE gone[m]]
  /\ listings' = listings \ {l}
  /\ startPc' = AfterDiscovery
  /\ UNCHANGED <<storeVars, statuses, firings, proc, exitCode, connected>>

\* variant: the rejection leaves discoverMonitors and ends the process
DiscoveryFailsExits(l) ==
  /\ proc # "exited"
  /\ l \in listings
  /\ listings' = listings \ {l}
  /\ proc' = "exited"
  /\ exitCode' = 1
  /\ UNCHANGED <<storeVars, statuses, activeMonitors, timers, firings, startPc,
                 connected, lastRead, gone>>

\* variant: the rejection of the initial discovery leaves startEngine before
\* the interval is installed
DiscoveryFailsNoInterval(l) ==
  /\ proc # "exited"
  /\ l \in listings
  /\ listings' = listings \ {l}
  /\ startPc' = IF startPc = "initialDiscovery" THEN "failed" ELSE startPc
  /\ UNCHANGED <<storeVars, statuses, activeMonitors, timers, firings, proc,
                 exitCode, connected, lastRead, gone>>

\* find() rejects: the error is logged
DiscoveryFails(l) ==
  /\ proc # "exited"
  /\ l \in listings
  /\ listings' = listings \ {l}
  /\ startPc' = AfterDiscovery
  /\ UNCHANGED <<storeVars, statuses, activeMonitors, timers, firings, proc,
                 exitCode, connected, lastRead, gone>>

\* --------------------------------------------------- startup and shutdown
\* initializeDatabase() returned true: the initial discovery starts
DbConnected ==
  /\ proc # "exited"
  /\ startPc = "connecting"
  /\ startPc' = "initialDiscovery"
  /\ connected' = TRUE
  /\ listings' = listings \cup {[n |-> FreeSlot, list |-> store]}
  /\ UNCHANGED <<storeVars, statuses, activeMonitors, timers, firings, proc,
                 exitCode, lastRead, gone>>

\* initializeDatabase() returned false: process.exit(1)
DbConnectFailed ==
  /\ proc # "exited"
  /\ startPc = "connecting"
  /\ proc' = "exited"
  /\ exitCode' = 1
  /\ UNCHANGED <<storeVars, statuses, activeMonitors, timers, firings,
                 listings, startPc, connected, lastRead, gone>>

\* SIGINT handler up to its await: clearTimeout of every map value, then
\* destroy() of an initialized data source, else process.exit(0) at once
Sigint ==
  /\ proc = "up"
  /\ timers' = {t \in timers : t.h \notin Range(activeMonitors)}
  /\ IF connected
     THEN proc' = "closing" /\ exitCode' = exitCode
     ELSE proc' = "exited" /\ exitCode' = 0
  /\ UNCHANGED <<storeVars, statuses, activeMonitors, firings, listings,
                 startPc, connected, lastRead, gone>>

\* destroy() resolved: process.exit(0)
Exit ==
  /\ proc = "closing"
  /\ proc' = "exited"
  /\ exitCode' = 0
  /\ connected' = FALSE
  /\ UNCHANGED <<storeVars, statuses, activeMonitors, timers, firings,
                 listings, startPc, lastRead, gone>>

\* ------------------------------------------- the owner of the definitions
\* Armed: the monitor has a pending timer and no firing in flight
Armed(m) ==
  /\ \E t \in timers : t.id = m
  /\ \A f \in firings : f.id # m

\* POST /api/monitors inserts a row under a new uuid
CreateMonitor(m, def) ==
  /\ proc # "exited"
  /\ store[m] = NoDef
  /\ m \notin deleted
  /\ store' = [store EXCEPT ![m] = def]
  /\ UNCHANGED <<deleted, procVars, statuses, activeMonitors, timers, firings,
                 listings, lastRead, gone>>

\* PUT /api/monitors/:id changes the periodicity, never the id or the type
EditMonitor(m, p) ==
  /\ proc # "exited"
  /\ store[m] # NoDef
  /\ store[m].periodicity # p
  /\ store' = [store EXCEPT ![m].periodicity = p]
  /\ UNCHANGED <<deleted, procVars, statuses, activeMonitors, timers, firings,
                 listings, lastRead, gone>>

\* PUT /api/monitors/:id changes host, port, url, checkStatus or keywords
EditFields(m, v) ==
  /\ proc # "exited"
  /\ store[m] # NoDef
  /\ store[m].fields # v
  /\ store' = [store EXCEPT ![m].fields = v]
  /\ UNCHANGED <<deleted, procVars, statuses, activeMonitors, timers, firings,
                 listings, lastRead, gone>>

\* the type column of a row is changed in the database; no route of the
\* backend does it, and the value may be one the engine does not know
RetypeMonitor(m, ty) ==
  /\ proc # "exited"
  /\ store[m] # NoDef
  /\ store[m].type # ty
  /\ store' = [store EXCEPT ![m].type = ty]
  /\ UNCHANGED <<deleted, procVars, statuses, activeMonitors, timers, firings,
                 listings, lastRead, gone>>

\* DELETE /api/monitors/:id removes the row
DeleteMonitor(m, hist) ==
  /\ proc # "exited"
  /\ store[m] # NoDef
  /\ store' = [store EXCEPT ![m] = NoDef]
  /\ deleted' = deleted \cup {m}
  /\ gone' = IF hist /\ Armed(m) THEN [gone EXCEPT ![m] = "armed"] ELSE gone
  /\ UNCHANGED <<procVars, statuses, activeMonitors, timers, firings,
                 listings, lastRead>>

\* ------------------------------------------------------- specifications
Engine(hist) ==
  \/ \E t \in timers : Fire(t, hist) /\ Note(hist, "Fire")
  \/ \E f \in firings :
       /\ ReadReturnFound(f, hist)
       /\ Note(hist, IF Runner(FindOne(f)) = "none"
                     THEN "UnknownType" ELSE "ReadReturnFound")
  \/ \E f \in firings : ReadReturnNotFound(f, hist) /\ Note(hist, "ReadReturnNotFound")
  \/ \E f \in firings : ReadReturnError(f) /\ Note(hist, "ReadReturnError")
  \/ \E f \in firings, s \in StatusType : CheckReturn(f, s) /\ Note(hist, "CheckReturn")
  \/ \E f \in firings : SaveReturn(f) /\ Note(hist, "SaveReturn")
  \/ \E f \in firings : SaveThrows(f) /\ Note(hist, "SaveThrows")
  \/ \E l \in listings : DiscoveryReturn(l, hist) /\ Note(hist, "DiscoveryReturn")
  \/ \E l \in listings : DiscoveryFails(l) /\ Note(hist, "DiscoveryFails")
  \/ DbConnected /\ Note(hist, "DbConnected")

\* the engine with every monitor, startup failure and shutdown; a discovery
\* tick finds no earlier listing outstanding
Next ==
  \/ Engine(FALSE)
  \/ DiscoveryTick(MaxListings) /\ UNCHANGED <<last, callVars>>
  \/ DbConnectFailed /\ UNCHANGED <<last, callVars>>
  \/ Sigint /\ UNCHANGED <<last, callVars>>
  \/ Exit /\ UNCHANGED <<last, callVars>>
  \/ \E m \in Ids : \E def \in Monitor(m) : CreateMonitor(m, def) /\ UNCHANGED <<last, callVars>>
  \/ \E m \in Ids : \E p \in PeriodsOf(m) : EditMonitor(m, p) /\ UNCHANGED <<last, callVars>>
  \/ \E m \in Ids : DeleteMonitor(m, FALSE) /\ UNCHANGED <<last, callVars>>

Spec == Init /\ [][Next]_vars

\* the running engine with history recorded: monitor 1 is created, edited
\* and deleted, the other monitors are created and keep their definition
NextHistory ==
  \/ Engine(TRUE)
  \/ DiscoveryTick(MaxListings) /\ UNCHANGED <<last, callVars>>
  \/ \E m \in Ids : \E def \in Monitor(m) : CreateMonitor(m, def) /\ UNCHANGED <<last, callVars>>
  \/ \E p \in PeriodsOf(1) : EditMonitor(1, p) /\ UNCHANGED <<last, callVars>>
  \/ DeleteMonitor(1, TRUE) /\ UNCHANGED <<last, callVars>>

SpecHistory == Init /\ [][NextHistory]_vars

\* one monitor that is created and deleted but not edited, history recorded,
\* and a store slow enough for a listing to be outstanding when the next
\* discovery tick starts
NextOverlap ==
  \/ Engine(TRUE)
  \/ DiscoveryTick(MaxOverlap) /\ UNCHANGED <<last, callVars>>
  \/ \E def \in Monitor(1) : CreateMonitor(1, def) /\ UNCHANGED <<last, callVars>>
  \/ DeleteMonitor(1, TRUE) /\ UNCHANGED <<last, callVars>>

SpecOverlap == Init /\ [][NextOverlap]_vars

\* the running engine with history recorded and one monitor, whose
\* type-specific fields and type change and whose periodicity does not, and
\* which may be deleted
NextTypes ==
  \/ Engine(TRUE)
  \/ DiscoveryTick(MaxListings) /\ UNCHANGED <<last, callVars>>
  \/ CreateMonitor(1, PeriodOnly(1)) /\ UNCHANGED <<last, callVars>>
  \/ \E v \in FieldRevisions : EditFields(1, v) /\ UNCHANGED <<last, callVars>>
  \/ \E ty \in Types \cup {CorruptType} : RetypeMonitor(1, ty) /\ UNCHANGED <<last, callVars>>
  \/ DeleteMonitor(1, TRUE) /\ UNCHANGED <<last, callVars>>

SpecTypes == Init /\ [][NextTypes]_vars

\* The engine that runs for ever: no shutdown and no startup failure, every
\* monitor is created, monitor 1 may be deleted.  The model keeps the last
\* MaxStatuses records of the MonitorStatus table; Forget drops the oldest.
Forget ==
  /\ statuses # <<>>
  /\ statuses' = Tail(statuses)
  /\ UNCHANGED <<storeVars, procVars, activeMonitors, timers, firings,
                 listings, lastRead, gone, last, callVars>>

NextLive ==
  \/ Engine(FALSE)
  \/ DiscoveryTick(MaxListings) /\ UNCHANGED <<last, callVars>>
  \/ \E m \in Ids : CreateMonitor(m, PeriodOnly(m)) /\ UNCHANGED <<last, callVars>>
  \/ DeleteMonitor(1, FALSE) /\ UNCHANGED <<last, callVars>>
  \/ Forget

\* the continuations of monitor m, as the fairness conditions name them
FireOf(m) ==
  \E t \in timers : t.id = m /\ Fire(t, FALSE) /\ Note(FALSE, "Fire")
ReadOf(m) ==
  \E f \in firings :
    /\ f.id = m
    /\ \/ ReadReturnFound(f, FALSE) /\ Note(FALSE, "ReadReturnFound")
       \/ ReadReturnNotFound(f, FALSE) /\ Note(FALSE, "ReadReturnNotFound")
CheckOf(m) ==
  \E f \in firings, s \in StatusType :
    f.id = m /\ CheckReturn(f, s) /\ Note(FALSE, "CheckReturn")
SaveOf(m) ==
  \E f \in firings :
    /\ f.id = m
    /\ \/ SaveReturn(f) /\ Note(FALSE, "SaveReturn")
       \/ SaveThrows(f) /\ Note(FALSE, "SaveThrows")
ListingReturns ==
  \E l \in listings : DiscoveryReturn(l, FALSE) /\ Note(FALSE, "DiscoveryReturn")

\* Timers fire, the interval ticks, checks and writes end (weak fairness);
\* reads of the store may fail but succeed again and again (strong fairness).
Fairness ==
  /\ WF_vars(DbConnected /\ Note(FALSE, "DbConnected"))
  /\ WF_vars(DiscoveryTick(MaxListings) /\ UNCHANGED <<last, callVars>>)
  /\ SF_vars(ListingReturns)
  /\ WF_vars(Forget)
  /\ \A m \in Ids : /\ SF_vars(FireOf(m))
                     /\ SF_vars(ReadOf(m))
                     /\ WF_vars(CheckOf(m))
                     /\ WF_vars(SaveOf(m))

SpecLive == Init /\ [][NextLive]_vars /\ Fairness

\* --------------------------------------------------------------- runners
\* A string is a sequence of characters.  The keywords of a monitor and the
\* body of a response are strings over Alphabet of at most MaxKeywordLen
\* characters; a list of keywords has at most MaxKeywords entries.
Alphabet == {"a", " "}
Whitespace == {" "}
Strings == UNION {[1..n -> Alphabet] : n \in 0..MaxKeywordLen}
\* the column is a simple-array: the list [""] is stored as the empty string
\* and read back as the empty list
KeywordLists == (UNION {[1..n -> Strings] : n \in 0..MaxKeywords}) \ {<< <<>> >>}

\* String.prototype.includes
Includes(text, keyword) ==
  \E i \in 0..(Len(text) - Len(keyword)) :
    SubSeq(text, i + 1, i + Len(keyword)) = keyword

\* String.prototype.trim
RECURSIVE Trim(_)
Trim(s) ==
  IF s = <<>> THEN s
  ELSE IF Head(s) \in Whitespace THEN Trim(Tail(s))
  ELSE IF s[Len(s)] \in Whitespace THEN Trim(SubSeq(s, 1, Len(s) - 1))
  ELSE s

\* the error of a MonitorStatus: undefined, `HTTP status code ${code}`,
\* `Keyword "${keyword}" not found in response`, or the message of an Error
NoError == [kind |-> "none", code |-> 0, keyword |-> <<>>, text |-> ""]
HttpStatusError(code) ==
  [kind |-> "status", code |-> code, keyword |-> <<>>, text |-> ""]
KeywordError(keyword) ==
  [kind |-> "keyword", code |-> 0, keyword |-> keyword, text |-> ""]
MessageError(text) ==
  [kind |-> "message", code |-> 0, keyword |-> <<>>, text |-> text]

\* what fetch and response.text() reject with
RequestErrors == {"fetch failed", "The operation was aborted due to timeout"}
BodyErrors == {"Premature close", "The operation was aborted due to timeout"}
StatusCodes == {199, 200, 299, 300}

\* a call of runWebsiteMonitor: checkStatus and keywords of the monitor, and
\* what the network does: fetch resolves ("ok") with a response of status
\* code and body, or rejects; text() resolves ("ok") with body, or rejects
WebsiteCalls ==
  [op : {"website"}, checkStatus : BOOLEAN, keywords : KeywordLists,
   fetch : {"ok"} \cup RequestErrors, code : StatusCodes,
   text : {"ok"} \cup BodyErrors, body : Strings]

\* a call of runPingMonitor: the port of the monitor, and the event the
\* socket emits first, with the message of the error of an 'error' event
Ports == {80, MaxPort + 1}
SocketErrors == {"connect ECONNREFUSED", "getaddrinfo ENOTFOUND"}
ConnectionTimedOut == "Connection timed out"
PingCalls ==
  [op : {"ping"}, port : Ports, event : {"connect", "timeout", "error"},
   message : SocketErrors]

\* both runners start with status 'failed' and error undefined
RunnerStart(pc) == [pc |-> pc, status |-> "failed", error |-> NoError]

\* new MonitorStatus({monitorId, status, responseTime, error})
Return(status, error) == [pc |-> "returned", status |-> status, error |-> error]

\* the test of the keyword loop: the keyword is not the empty string and the
\* body does not include it, as it is written in the list
KeywordMissing(keyword, text) == keyword # <<>> /\ ~Includes(text, keyword)

\* the keyword at which the loop breaks, 0 when it runs to its end
FirstMissing(keywords, text) ==
  LET missing == {i \in 1..Len(keywords) : KeywordMissing(keywords[i], text)}
  IN IF missing = {} THEN 0 ELSE CHOOSE i \in missing : \A j \in missing : i <= j

\* variant: the status code fails the test from 301 on
WebsiteFetchReturnLax ==
  /\ call.op = "website"
  /\ frame.pc = "fetching"
  /\ call.fetch = "ok"
  /\ frame' =
       IF call.checkStatus /\ (call.code < 200 \/ call.code > 300)
       THEN Return(frame.status, HttpStatusError(call.code))
       ELSE IF Len(call.keywords) > 0
       THEN [frame EXCEPT !.pc = "reading", !.status = "succeeded"]
       ELSE Return("succeeded", frame.error)
  /\ UNCHANGED <<engineVars, call>>

\* fetch resolves; the status code is tested when checkStatus is set, and
\* with keywords to look for the runner awaits the body
WebsiteFetchReturn ==
  /\ call.op = "website"
  /\ frame.pc = "fetching"
  /\ call.fetch = "ok"
  /\ frame' =
       IF call.checkStatus /\ (call.code < 200 \/ call.code >= 300)
       THEN Return(frame.status, HttpStatusError(call.code))
       ELSE IF Len(call.keywords) > 0
       THEN [frame EXCEPT !.pc = "reading", !.status = "succeeded"]
       ELSE Return("succeeded", frame.error)
  /\ UNCHANGED <<engineVars, call>>

\* variant: after a rejection the request is sent again
WebsiteFetchRetries ==
  /\ call.op = "website"
  /\ frame.pc = "fetching"
  /\ call.fetch # "ok"
  /\ frame' = [frame EXCEPT !.error = MessageError(call.fetch)]
  /\ UNCHANGED <<engineVars, call>>

\* fetch rejects (no connection, abort after 10 s): the catch block
WebsiteFetchThrows ==
  /\ call.op = "website"
  /\ frame.pc = "fetching"
  /\ call.fetch # "ok"
  /\ frame' = Return(frame.status, MessageError(call.fetch))
  /\ UNCHANGED <<engineVars, call>>

\* text() resolves: the keyword loop
WebsiteTextReturn ==
  /\ call.op = "website"
  /\ frame.pc = "reading"
  /\ call.text = "ok"
  /\ frame' =
       LET i == FirstMissing(call.keywords, call.body)
       IN IF i = 0 THEN Return(frame.status, frame.error)
          ELSE Return("failed", KeywordError(call.keywords[i]))
  /\ UNCHANGED <<engineVars, call>>

\* text() rejects (the connection breaks, abort after 10 s): the catch
\* block, which sets error and not status
WebsiteTextThrows ==
  /\ call.op = "website"
  /\ frame.pc = "reading"
  /\ call.text # "ok"
  /\ frame' = Return(frame.status, MessageError(call.text))
  /\ UNCHANGED <<engineVars, call>>

\* socket.connect throws for a port outside 0..MaxPort: the executor of the
\* promise throws, the promise rejects and the catch block only logs
PingConnectThrows ==
  /\ call.op = "ping"
  /\ frame.pc = "connecting"
  /\ call.port > MaxPort
  /\ frame' = Return(frame.status, frame.error)
  /\ UNCHANGED <<engineVars, call>>

\* 'connect': the handshake is done
PingConnect ==
  /\ call.op = "ping"
  /\ frame.pc = "connecting"
  /\ call.port <= MaxPort
  /\ call.event = "connect"
  /\ frame' = Return("succeeded", frame.error)
  /\ UNCHANGED <<engineVars, call>>

\* 'timeout': 5 s without a handshake
PingTimeout ==
  /\ call.op = "ping"
  /\ frame.pc = "connecting"
  /\ call.port <= MaxPort
  /\ call.event = "timeout"
  /\ frame' = Return(frame.status, MessageError(ConnectionTimedOut))
  /\ UNCHANGED <<engineVars, call>>

\* variant: the handler of 'error' rejects and does not set error
PingErrorUnnamed ==
  /\ call.op = "ping"
  /\ frame.pc = "connecting"
  /\ call.port <= MaxPort
  /\ call.event = "error"
  /\ frame' = Return(frame.status, frame.error)
  /\ UNCHANGED <<engineVars, call>>

\* 'error': refused, no such host
PingError ==
  /\ call.op = "ping"
  /\ frame.pc = "connecting"
  /\ call.port <= MaxPort
  /\ call.event = "error"
  /\ frame' = Return(frame.status, MessageError(call.message))
  /\ UNCHANGED <<engineVars, call>>

\* one call of a runner, from its first line to its return
InitRunners ==
  /\ EngineInit
  /\ call \in WebsiteCalls \cup PingCalls
  /\ frame = RunnerStart(IF call.op = "website" THEN "fetching" ELSE "connecting")

NextRunners ==
  \/ WebsiteFetchReturn
  \/ WebsiteFetchThrows
  \/ WebsiteTextReturn
  \/ WebsiteTextThrows
  \/ PingConnectThrows
  \/ PingConnect
  \/ PingTimeout
  \/ PingError

SpecRunners == InitRunners /\ [][NextRunners]_vars

\* --------------------------------------------------- the owner's routes
\* The periodicity of a request body: not given, null, a number, or a text
\* that is not a number.
Absent == [kind |-> "absent", v |-> 0]
Null == [kind |-> "null", v |-> 0]
Number(v) == [kind |-> "number", v |-> v]
NotANumber == [kind |-> "text", v |-> 0]
PeriodicityInputs ==
  {Absent, Null, NotANumber}
    \cup {Number(v) : v \in {0, MinPeriodicity - 1, MinPeriodicity,
                             MaxPeriodicity, MaxPeriodicity + 1}}

\* !periodicity
Falsy(p) == p.kind \in {"absent", "null"} \/ (p.kind = "number" /\ p.v = 0)

\* periodicity < 5 || periodicity > 300: null compares as 0, undefined and
\* a text that is not a number compare as NaN
OutOfRange(p) ==
  \/ p.kind = "null"
  \/ p.kind = "number" /\ (p.v < MinPeriodicity \/ p.v > MaxPeriodicity)

\* the integer column takes a number and refuses the text
ColumnAccepts(p) == p.kind = "number"

\* the body of a POST: periodicity, type ("" when not given), whether label,
\* projectId and badgeLabel are given, and the type-specific fields (0 when
\* host, port or url is missing)
PostBodies ==
  [periodicity : PeriodicityInputs, type : Types \cup {""}, named : BOOLEAN,
   fields : {0, FirstFields}]

\* the body of a PUT: periodicity, and the revision of the type-specific
\* fields, 0 when none is given
PutBodies == [periodicity : PeriodicityInputs, fields : {0} \cup FieldRevisions]

Respond(code) == [pc |-> "responded", code |-> code]

\* POST /api/monitors, m the uuid the row would get
PostMonitor(m, body) ==
  /\ store[m] = NoDef
  /\ m \notin deleted
  /\ call' = [op |-> "POST", id |-> m, body |-> body]
  /\ IF ~body.named \/ body.type = "" \/ Falsy(body.periodicity)
       THEN frame' = Respond(400) /\ UNCHANGED store
     ELSE IF OutOfRange(body.periodicity)
       THEN frame' = Respond(400) /\ UNCHANGED store
     ELSE IF body.fields = 0
       THEN frame' = Respond(400) /\ UNCHANGED store
     ELSE IF ~ColumnAccepts(body.periodicity)
       THEN frame' = Respond(500) /\ UNCHANGED store
     ELSE /\ frame' = Respond(201)
          /\ store' = [store EXCEPT ![m] =
                         [periodicity |-> body.periodicity.v,
                          type |-> body.type, fields |-> body.fields]]
  /\ UNCHANGED <<deleted, statuses, activeMonitors, timers, firings, listings,
                 procVars, lastRead, gone, last>>

\* variant: the periodicity of the body is stored as it comes
PutMonitorUnchecked(m, body) ==
  /\ call' = [op |-> "PUT", id |-> m, body |-> body]
  /\ IF store[m] = NoDef
       THEN frame' = Respond(404) /\ UNCHANGED store
     ELSE IF body.periodicity.kind \notin {"absent", "number"}
       THEN frame' = Respond(500) /\ UNCHANGED store
     ELSE /\ frame' = Respond(200)
          /\ store' = [store EXCEPT
               ![m].periodicity =
                  IF body.periodicity.kind = "absent" THEN @
                  ELSE body.periodicity.v,
               ![m].fields = IF body.fields = 0 THEN @ ELSE body.fields]
  /\ UNCHANGED <<deleted, statuses, activeMonitors, timers, firings, listings,
                 procVars, lastRead, gone, last>>

\* PUT /api/monitors/:id
PutMonitor(m, body) ==
  /\ call' = [op |-> "PUT", id |-> m, body |-> body]
  /\ IF store[m] = NoDef
       THEN frame' = Respond(404) /\ UNCHANGED store
     ELSE IF body.periodicity.kind # "absent" /\ OutOfRange(body.periodicity)
       THEN frame' = Respond(400) /\ UNCHANGED store
     ELSE IF body.periodicity.kind # "absent" /\ ~ColumnAccepts(body.periodicity)
       THEN frame' = Respond(500) /\ UNCHANGED store
     ELSE /\ frame' = Respond(200)
          /\ store' = [store EXCEPT
               ![m].periodicity =
                  IF body.periodicity.kind = "absent" THEN @
                  ELSE body.periodicity.v,
               ![m].fields = IF body.fields = 0 THEN @ ELSE body.fields]
  /\ UNCHANGED <<deleted, statuses, activeMonitors, timers, firings, listings,
                 procVars, lastRead, gone, last>>

\* the routes of the backend that write the Monitor table, the engine not
\* running
NextOwner ==
  \/ \E m \in Ids : \E body \in PostBodies : PostMonitor(m, body)
  \/ \E m \in Ids : \E body \in PutBodies : PutMonitor(m, body)
  \/ \E m \in Ids : DeleteMonitor(m, FALSE) /\ UNCHANGED <<last, callVars>>

SpecOwner == Init /\ [][NextOwner]_vars

\* ------------------------------------------------------------- the badge
\* the badgeLabel column of a row; the model fixes it per id, with a space
\* in the label of monitor 1
BadgeLabelOf(m) == IF m = 1 THEN <<"a", " ", "a">> ELSE <<"a">>

\* encodeURIComponent: a letter stays, a space becomes %20
RECURSIVE EncodeURIComponent(_)
EncodeURIComponent(s) ==
  IF s = <<>> THEN <<>>
  ELSE (IF Head(s) = " " THEN <<"%", "2", "0">> ELSE <<Head(s)>>)
         \o EncodeURIComponent(Tail(s))

\* the records of monitor m, and the one getOne returns under
\* orderBy("status.startTime", "DESC"): 0 when there is none
RecordsOf(m) == {i \in 1..Len(statuses) : statuses[i].monitorId = m}
LatestStatus(m) ==
  IF RecordsOf(m) = {} THEN 0
  ELSE CHOOSE i \in RecordsOf(m) :
         \A j \in RecordsOf(m) : StartTime(j) <= StartTime(i)

\* https://img.shields.io/badge/<label>-<message>-<color>
BadgeUrl(label, message, color) ==
  [label |-> EncodeURIComponent(label), message |-> message, color |-> color]

\* GET /badge/:monitorId; shields is what the fetch of the badge does
GetBadge(m, shields) ==
  /\ call' = [op |-> "badge", id |-> m, shields |-> shields]
  /\ frame' =
       IF store[m] = NoDef THEN [pc |-> "responded", code |-> 404]
       ELSE LET latest == LatestStatus(m)
                up == latest # 0 /\ statuses[latest].status = "succeeded"
                badgeUrl == BadgeUrl(BadgeLabelOf(m),
                                     IF up THEN "succeeded" ELSE "failed",
                                     IF up THEN "green" ELSE "red")
            IN IF shields = "ok"
               THEN [pc |-> "responded", code |-> 200, badge |-> badgeUrl]
               ELSE [pc |-> "responded", code |-> 500]
  /\ UNCHANGED engineVars

\* the tables when a badge is asked for: any rows, and up to MaxStatuses
\* records of their checks
StatusTables ==
  UNION {[1..n -> [monitorId : Ids, status : StatusType]] : n \in 0..MaxStatuses}
Numbered(table) ==
  [i \in 1..Len(table) |->
     [monitorId |-> table[i].monitorId, status |-> table[i].status,
      began |-> Cardinality({j \in 1..i : table[j].monitorId = table[i].monitorId})]]

InitBadge ==
  /\ store \in [Ids -> {NoDef} \cup UNION {Monitor(m) : m \in Ids}]
  /\ \A m \in Ids : store[m] # NoDef => store[m] \in Monitor(m)
  /\ deleted = {}
  /\ \E table \in StatusTables :
       /\ \A i \in 1..Len(table) : store[table[i].monitorId] # NoDef
       /\ statuses = Numbered(table)
  /\ activeMonitors = <<>>
  /\ timers = {}
  /\ firings = {}
  /\ listings = {}
  /\ startPc = "connecting"
  /\ proc = "up"
  /\ exitCode = -1
  /\ connected = FALSE
  /\ lastRead = [m \in Ids |-> 0]
  /\ gone = [m \in Ids |-> "no"]
  /\ last = ""
  /\ call = NoCall
  /\ frame = NoFrame

NextBadge == \E m \in Ids, shields \in {"ok", "throws"} : GetBadge(m, shields)

SpecBadge == InitBadge /\ [][NextBadge]_vars

\* ---------------------------------------------------------- the calendar
\* Time is counted in hours; the day of an instant is its UTC date, the
\* first ten characters of toISOString().
UtcDay(t) == t \div HoursPerDay
Noon(d) == d * HoursPerDay + HoursPerDay \div 2

\* checks of one day, all at noon UTC, those at the positions F failed
DayRows(d, n, F) ==
  [i \in 1..n |-> [time |-> Noon(d),
                   status |-> IF i \in F THEN "failed" ELSE "succeeded"]]

\* the checks of a monitor in the months shown: up to MaxDayChecks on day 1,
\* at most two of them failed, and none or one on day 2, before or after them
CalendarRows ==
  LET first == {DayRows(1, n, {a, b} \ {0}) :
                  n \in 0..MaxDayChecks, a \in 0..MaxDayChecks, b \in 0..MaxDayChecks}
      second == {<<>>} \cup {DayRows(2, 1, F) : F \in {{}, {1}}}
  IN UNION {{r \o s, s \o r} : r \in first, s \in second}

\* the days of the month that are drawn, and the offset of the browser's
\* time zone from UTC in hours, east positive
LocalDays == 1..2
Offsets == {-5, 0, 2}

DaysOf(rows) == {UtcDay(rows[i].time) : i \in 1..Len(rows)}
TotalOn(rows, day) ==
  Cardinality({i \in 1..Len(rows) : UtcDay(rows[i].time) = day})
FailedOn(rows, day) ==
  Cardinality({i \in 1..Len(rows) :
                 UtcDay(rows[i].time) = day /\ rows[i].status = "failed"})

\* failureRate = (failed / total) * 100, compared with 0 and with 5
DayStatusOf(failed, total) ==
  IF failed * 100 = 0 THEN "success"
  ELSE IF failed * 100 <= 5 * total THEN "warning"
  ELSE "error"

\* Math.round(failureRate * 100) / 100, in hundredths of a per cent
RoundedRate(failed, total) == (2 * failed * 10000 + total) \div (2 * total)

\* GET /api/status/calendar: one entry for each day that has a status
CalendarRoute ==
  /\ call.op = "calendar"
  /\ frame.pc = "start"
  /\ frame' =
       [pc |-> "responded",
        data |-> {[date |-> day,
                   status |-> DayStatusOf(FailedOn(call.rows, day),
                                          TotalOn(call.rows, day)),
                   failureRate |-> RoundedRate(FailedOn(call.rows, day),
                                               TotalOn(call.rows, day)),
                   total |-> TotalOn(call.rows, day),
                   failed |-> FailedOn(call.rows, day)] :
                  day \in DaysOf(call.rows)}]
  /\ UNCHANGED <<engineVars, call>>

\* new Date(year, month, day).toISOString().split("T")[0]: the UTC date of
\* the local midnight that begins the day
DateKey(day, offset) == UtcDay(day * HoursPerDay - offset)

\* the colours of MonitorCalendarView
Colour(status) ==
  IF status = "success" THEN "green"
  ELSE IF status = "warning" THEN "orange"
  ELSE "red"

\* MonitorCalendarView: one box for each day of the month, gray when the
\* map of checks has nothing under the key of the day
CalendarView ==
  /\ call.op = "calendar"
  /\ frame.pc = "start"
  /\ frame' =
       [pc |-> "rendered",
        boxes |-> [day \in LocalDays |->
          LET dateKey == DateKey(day, call.offset)
              total == TotalOn(call.rows, dateKey)
              failures == FailedOn(call.rows, dateKey)
          IN [status |-> IF total > 0
                         THEN Colour(DayStatusOf(failures, total)) ELSE "gray",
              totalChecks |-> total]]]
  /\ UNCHANGED <<engineVars, call>>

\* the calendar of one monitor, from the route or from the component
InitCalendar ==
  /\ EngineInit
  /\ call \in [op : {"calendar"}, rows : CalendarRows, offset : Offsets]
  /\ frame = [pc |-> "start"]

NextCalendar ==
  \/ CalendarRoute
  \/ CalendarView

SpecCalendar == InitCalendar /\ [][NextCalendar]_vars

\* ------------------------------------------------------------ properties
TimersOf(m) == {t \in timers : t.id = m}
FiringsOf(m) == {f \in firings : f.id = m}
Checking(f) == f.pc \in {"checking", "saving"}

\* the firing f is over in the next state
FiringEnds(f) == \A g \in firings' : g.h # f.h

\* the timers armed by this step
NewTimers == timers' \ timers

\* C1: for every monitor id at most one check of it is in flight at any time.
\* Fails under SpecOverlap: a listing taken before the monitor was created
\* returns after the monitor was scheduled and its first check started, and
\* removes the id from the map; the next listing schedules the id again and
\* the second chain starts a check while the first is still running.
C1_OneCheckInFlight ==
  \A m \in Ids : Cardinality({f \in FiringsOf(m) : Checking(f)}) <= 1

\* C2: a firing that is in flight when discovery removes its id from the
\* armed map does not put the id back and arms no timer for it.  In Spec an
\* id with a firing in flight is absent from the map only after discovery
\* removed it.  Fails: the firing re-arms without looking at the map.
C2_NoRearmAfterCancel ==
  [][\A f \in firings :
       (f.id \notin DOMAIN activeMonitors /\ FiringEnds(f))
         => /\ f.id \notin DOMAIN activeMonitors'
            /\ \A t \in NewTimers : t.id # f.id]_vars

\* C3: once a monitor was deleted while Armed, no record of it is saved, and
\* once its next firing has read the store or a listing taken after the
\* deletion has returned, no timer is pending for it.  Fails: a listing
\* taken before the deletion returns after the firing found the monitor
\* gone and schedules it again.
C3_DeletedStaysUnarmed ==
  [][/\ \A m \in Ids : gone'[m] = "settled" => \A t \in timers' : t.id # m
     /\ statuses' # statuses
          => gone[statuses'[Len(statuses')].monitorId] = "no"]_vars

\* C4: a firing that found its definition ends, whatever the check and the
\* save did, with a new timer of delay current.periodicity * 1000 whose
\* handle the map holds under the monitor's id.
C4_FoundFiringRearms ==
  [][\A f \in firings :
       (Checking(f) /\ FiringEnds(f))
         => \E t \in NewTimers :
              /\ t.id = f.id
              /\ t.delay = f.current.periodicity * MsPerSecond
              /\ f.id \in DOMAIN activeMonitors'
              /\ activeMonitors'[f.id] = t.h]_vars

\* a monitor armed again after a firing whose save failed
C4_Witness ==
  \E t \in timers :
    /\ t.delay \in {p * MsPerSecond : p \in Periods}
    /\ t.id \in DOMAIN activeMonitors
    /\ activeMonitors[t.id] = t.h
    /\ statuses = <<>>

\* C5: when the read of the definition fails at firing time, the timer armed
\* by the catch branch has a delay of (the periodicity last read successfully
\* for the monitor) seconds.  Fails: the delay is the periodicity of the
\* definition the closure was scheduled with, taken as milliseconds.
C5_RetryAfterLastReadPeriod ==
  [][\A f \in firings :
       (f.pc = "reading" /\ FiringEnds(f) /\ lastRead' = lastRead)
         => \A t \in NewTimers :
              t.delay = lastRead[f.id] * MsPerSecond]_vars

\* C6: once the SIGINT handler has begun no check is started and no monitor
\* is scheduled, and when the process exits no timer is pending and the data
\* source is closed.  Fails: a firing in flight when the handler ran goes on,
\* starts its check and arms its next timer while destroy() is awaited.
C6_CleanShutdown ==
  [][/\ proc # "up"
          => /\ \A g \in firings' : g.pc = "checking" => g \in firings
             /\ \A t \in NewTimers : t.delay # 0
     /\ proc' = "exited" => (timers' = {} /\ ~connected')]_vars

\* C7: the firing's check and its next timer use the definition as it is in
\* the store when the firing reads it: an edit of the periodicity made while
\* timer N is pending sets the delay of timer N+1, and no edit changes a
\* pending timer or the map.
C7_EditSetsNextDelay ==
  [][/\ \A f \in firings : \A g \in firings' :
          (f.pc = "reading" /\ g.h = f.h /\ g.pc = "checking")
            => g.current = store[f.id]
     /\ \A f \in firings :
          (Checking(f) /\ FiringEnds(f))
            => \A t \in NewTimers :
                 t.delay = f.current.periodicity * MsPerSecond
     /\ store' # store
          => (timers' = timers /\ activeMonitors' = activeMonitors)]_vars

\* timer N+1 is pending with the edited periodicity, timer N had another delay
C7_Witness ==
  \E t \in timers :
    /\ t.from \in {p * MsPerSecond : p \in Periods}
    /\ t.delay \in {p * MsPerSecond : p \in Periods}
    /\ t.delay # t.from
    /\ t.delay = store[t.id].periodicity * MsPerSecond

\* C8: a listing that returns with an id that is not a key of the map gives
\* the id, in that step, a pending timer of delay zero, which is due before
\* the discovery interval has passed.
C8_NewIdFiresAtOnce ==
  [][\A l \in listings :
       DiscoveryReturn(l, FALSE)
         => \A m \in Listed(l.list) \ DOMAIN activeMonitors :
              /\ m \in DOMAIN activeMonitors'
              /\ \E t \in timers' :
                   /\ t.h = activeMonitors'[m]
                   /\ t.id = m
                   /\ t.delay = 0
                   /\ t.delay < MONITOR_DISCOVERY_INTERVAL]_vars

\* a zero-delay timer is pending and the map holds its handle
C8_Witness ==
  \E t \in timers :
    /\ t.delay = 0
    /\ t.id \in DOMAIN activeMonitors
    /\ activeMonitors[t.id] = t.h

\* C9: when a listing returns, the timer the map held for every key that is
\* not listed is no longer pending, and the keys of the map are the listed
\* ids.
C9_KeysAreListedIds ==
  [][\A l \in listings :
       DiscoveryReturn(l, FALSE)
         => /\ DOMAIN activeMonitors' = Listed(l.list)
            /\ \A m \in DOMAIN activeMonitors \ Listed(l.list) :
                 \A t \in timers' : t.h # activeMonitors[m]]_vars

\* a deleted monitor was removed from the map while its firing was in flight
C9_Witness ==
  \E f \in firings :
    /\ f.id \in deleted
    /\ f.id \notin DOMAIN activeMonitors
    /\ DOMAIN activeMonitors # {}

C11_FailedTickChangesNothing ==
  [][\A l \in listings :
       DiscoveryFails(l)
         => /\ activeMonitors' = activeMonitors
            /\ timers' = timers
            /\ firings' = firings
            /\ proc' = proc
            /\ exitCode' = exitCode
            /\ startPc' = "started"]_vars

\* a listing has just failed while a monitor was armed
C11_Witness ==
  /\ last = "DiscoveryFails"
  /\ activeMonitors # <<>>
  /\ \E t \in timers : t.id \in DOMAIN activeMonitors /\ activeMonitors[t.id] = t.h
  /\ proc = "up"
  /\ startPc = "started"

\* C12: under the fairness of SpecLive, a monitor that is created and stays
\* in the store has a check started again and again, and every save that
\* returns adds exactly one record, of the monitor whose firing it ends.
C12_StayingMonitorIsChecked ==
  /\ \A m \in Ids :
       <>[](store[m] # NoDef)
         => []<>(\E f \in firings : f.id = m /\ f.pc = "checking")
  /\ [][\A f \in firings :
          SaveReturn(f)
            => /\ Len(statuses') = Len(statuses) + 1
               /\ statuses'[Len(statuses')].monitorId = f.id
               /\ \A i \in 1..Len(statuses) : statuses'[i] = statuses[i]]_vars

\* a monitor that is in the store is armed again after a record of it was saved
C12_Witness ==
  \E m \in Ids :
    /\ store[m] # NoDef
    /\ \E i \in 1..Len(statuses) : statuses[i].monitorId = m
    /\ \E t \in timers : t.id = m /\ t.delay = store[m].periodicity * MsPerSecond
    /\ m \in DOMAIN activeMonitors

\* C13: under the fairness of SpecLive, once a monitor is deleted its id is
\* from some point on never a key of the map and no timer is pending for it.
C13_DeletedEventuallyAbsent ==
  \A m \in Ids :
    [](m \in deleted
         => <>[](m \notin DOMAIN activeMonitors /\ \A t \in timers : t.id # m))

\* a monitor that had been checked is deleted and neither armed nor running
C13_Witness ==
  \E m \in deleted :
    /\ \E i \in 1..Len(statuses) : statuses[i].monitorId = m
    /\ m \notin DOMAIN activeMonitors
    /\ \A t \in timers : t.id # m
    /\ \A f \in firings : f.id # m

\* C14: a firing whose findOne returns no row starts no check, saves no
\* record, deletes its own id from the map and nothing else, arms no timer,
\* leaves every pending timer and every other firing alone and leaves the
\* process running.
C14_NotFoundDelists ==
  [][\A f \in firings :
       ReadReturnNotFound(f, TRUE)
         => /\ statuses' = statuses
            /\ firings' = firings \ {f}
            /\ timers' = timers
            /\ f.id \notin DOMAIN activeMonitors'
            /\ \A m \in (DOMAIN activeMonitors) \ {f.id} :
                 m \in DOMAIN activeMonitors' /\ activeMonitors'[m] = activeMonitors[m]
            /\ DOMAIN activeMonitors' \subseteq DOMAIN activeMonitors
            /\ proc' = proc
            /\ exitCode' = exitCode]_vars

\* a firing has just found its monitor gone while another monitor is armed
C14_Witness ==
  /\ last = "ReadReturnNotFound"
  /\ \E m \in deleted : m \notin DOMAIN activeMonitors
  /\ \E t \in timers : t.id \in DOMAIN activeMonitors /\ activeMonitors[t.id] = t.h

C16_UnknownTypeSkipsAndRearms ==
  [][\A f \in firings :
       /\ (ReadReturnFound(f, TRUE) /\ store[f.id].type \notin Types)
            => /\ statuses' = statuses
               /\ FiringEnds(f)
               /\ \A g \in firings' : g \in firings
               /\ \E t \in NewTimers :
                    /\ t.id = f.id
                    /\ t.delay = store[f.id].periodicity * MsPerSecond
                    /\ f.id \in DOMAIN activeMonitors'
                    /\ activeMonitors'[f.id] = t.h
       /\ (ReadReturnFound(f, TRUE) /\ store[f.id].type \in Types)
            => \E g \in firings' :
                 g.h = f.h /\ g.pc = "checking" /\ g.current.type = store[f.id].type]_vars

\* a firing has just skipped a row of unknown type and the monitor is armed
C16_Witness ==
  /\ last = "UnknownType"
  /\ \E t \in timers :
       /\ t.delay = store[t.id].periodicity * MsPerSecond
       /\ t.id \in DOMAIN activeMonitors
       /\ activeMonitors[t.id] = t.h
       /\ store[t.id].type = CorruptType

\* C17: a firing calls save at most once, with the one record its runner
\* returned: it awaits save only after its check and ends when save settles.
\* A record enters the table only when the save of a firing resolves, and it
\* is that firing's record.  When save rejects nothing is stored, the
\* process goes on, and the firing ends with the monitor armed after
\* current.periodicity seconds.
C17_OneSavePerFiring ==
  [][/\ \A g \in firings' :
          (g.pc = "saving" /\ g \notin firings)
            => \E f \in firings :
                 f.h = g.h /\ f.pc = "checking" /\ g.status \in StatusType
     /\ \A f \in firings :
          (f.pc = "saving" /\ f \notin firings') => FiringEnds(f)
     /\ statuses' # statuses
          => \E f \in firings :
               /\ f.pc = "saving"
               /\ FiringEnds(f)
               /\ Len(statuses') = Len(statuses) + 1
               /\ \A i \in 1..Len(statuses) : statuses'[i] = statuses[i]
               /\ statuses'[Len(statuses')].monitorId = f.id
               /\ statuses'[Len(statuses')].status = f.status
     /\ \A f \in firings :
          SaveThrows(f)
            => /\ statuses' = statuses
               /\ FiringEnds(f)
               /\ proc' = proc
               /\ \E t \in NewTimers :
                    /\ t.id = f.id
                    /\ t.delay = f.current.periodicity * MsPerSecond
                    /\ activeMonitors'[f.id] = t.h]_vars

\* a save has just been rejected: the table is empty and the monitor is armed
C17_Witness ==
  /\ last = "SaveThrows"
  /\ statuses = <<>>
  /\ \E t \in timers :
       /\ t.delay = lastRead[t.id] * MsPerSecond
       /\ t.delay > 0
       /\ t.id \in DOMAIN activeMonitors
       /\ activeMonitors[t.id] = t.h

\* C18: of two records of one monitor, the one whose check started later
\* has the later startTime.  Fails under SpecOverlap: two chains of one
\* monitor (C1) have checks in flight together, and the check that started
\* second is saved first.
C18_StartTimeFollowsCheckOrder ==
  \A i, j \in 1..Len(statuses) :
    (statuses[i].monitorId = statuses[j].monitorId
       /\ statuses[i].began < statuses[j].began)
      => StartTime(i) < StartTime(j)

\* what the engine holds for monitor m is the same before and after the step
SameFor(m) ==
  /\ (m \in DOMAIN activeMonitors) = (m \in DOMAIN activeMonitors')
  /\ m \in DOMAIN activeMonitors => activeMonitors'[m] = activeMonitors[m]
  /\ {t \in timers' : t.id = m} = TimersOf(m)
  /\ {f \in firings' : f.id = m} = FiringsOf(m)

\* C19: a rejected findOne, a failed check or a rejected save in the firing
\* of one monitor leaves the map entry, the timers and the firings of every
\* other monitor as they were; a rejected find() of a discovery tick leaves
\* those of every monitor as they were; none of them ends the process.
C19_FailureStaysLocal ==
  [][/\ \A f \in firings :
          (ReadReturnError(f) \/ CheckReturn(f, "failed") \/ SaveThrows(f))
            => /\ \A m \in Ids \ {f.id} : SameFor(m)
               /\ proc' = proc
               /\ exitCode' = exitCode
               /\ startPc' = startPc
     /\ \A l \in listings :
          DiscoveryFails(l)
            => /\ \A m \in Ids : SameFor(m)
               /\ proc' = proc
               /\ exitCode' = exitCode]_vars

\* a read of one monitor has just failed while the check of another monitor
\* is in flight: that check is still there and the first monitor is armed
C19_Witness ==
  /\ last = "ReadReturnError"
  /\ proc = "up"
  /\ \E f \in firings : \E t \in timers :
       /\ Checking(f)
       /\ t.id # f.id
       /\ f.id \in DOMAIN activeMonitors
       /\ t.id \in DOMAIN activeMonitors
       /\ activeMonitors[t.id] = t.h

\* C20: no step of the engine (a timer firing, a read, a check or a save
\* settling, a discovery tick starting or settling, startup, the SIGINT
\* handler, the exit) changes the Monitor table; the table changes only by
\* the owner's create, edit and delete.
C20_EngineOnlyReadsMonitors ==
  [][/\ (\/ Engine(FALSE)
         \/ DiscoveryTick(MaxListings)
         \/ DbConnectFailed
         \/ Sigint
         \/ Exit)
          => (store' = store /\ deleted' = deleted)
     /\ store' # store
          => \E m \in Ids :
               \/ \E def \in Monitor(m) : CreateMonitor(m, def)
               \/ \E p \in PeriodsOf(m) : EditMonitor(m, p)
               \/ DeleteMonitor(m, FALSE)]_vars

\* the engine has listed, checked and recorded a monitor whose row has been
\* edited since, and another firing of it is reading the store
C20_Witness ==
  \E f \in firings :
    /\ f.pc = "reading"
    /\ store[f.id] # NoDef
    /\ store[f.id].periodicity # f.monitor.periodicity
    /\ \E i \in 1..Len(statuses) : statuses[i].monitorId = f.id

\* -------------------------------------------------------------------- C21
\* C21: the MonitorStatus table is append-only for the engine.  Every step
\* of the engine (a timer firing, a read, a check or a save settling, a
\* discovery tick starting or settling, startup, the SIGINT handler, the
\* exit) leaves the table as it is or adds one record after the records it
\* has, and the records it had are still there, unchanged and in place.
C21_StatusesAppendOnly ==
  [][(\/ Engine(FALSE)
      \/ DiscoveryTick(MaxListings)
      \/ DbConnectFailed
      \/ Sigint
      \/ Exit)
       => /\ Len(statuses') \in {Len(statuses), Len(statuses) + 1}
          /\ \A i \in 1..Len(statuses) : statuses'[i] = statuses[i]]_vars

\* a monitor has a record in the table and another firing of it, with the
\* other result, is about to save
C21_Witness ==
  \E f \in firings : \E i \in 1..Len(statuses) :
    /\ f.pc = "saving"
    /\ statuses[i].monitorId = f.id
    /\ statuses[i].status # f.status

\* -------------------------------------------------------------------- C22
\* the call is of the website runner and the response passes the test of
\* the status code
StatusPasses ==
  /\ call.op = "website"
  /\ call.fetch = "ok"
  /\ ~(call.checkStatus /\ (call.code < 200 \/ call.code >= 300))

\* the call is of the website runner and it reads the body
ReadsBody == StatusPasses /\ Len(call.keywords) > 0

\* C22: every MonitorStatus a runner returns has status succeeded or failed,
\* no error when it is succeeded and an error when it is failed, whatever
\* the connect, the request, the status code and the read of the body did.
C22_ErrorIffFailed ==
  frame.pc = "returned" =>
    /\ frame.status \in StatusType
    /\ frame.status = "succeeded" => frame.error = NoError
    /\ frame.status = "failed" => frame.error # NoError

\* -------------------------------------------------------------------- C23
\* C23: a website check whose request fails or times out, at fetch or while
\* the body is read, returns failed with the message of the error as error.
C23_TransportFailureFails ==
  (/\ call.op = "website"
   /\ frame.pc = "returned"
   /\ call.fetch # "ok" \/ (ReadsBody /\ call.text # "ok"))
    => /\ frame.status = "failed"
       /\ frame.error = MessageError(IF call.fetch # "ok" THEN call.fetch
                                     ELSE call.text)

AbsentTrimmed ==
  {i \in 1..Len(call.keywords) :
     /\ Trim(call.keywords[i]) # <<>>
     /\ ~Includes(call.body, Trim(call.keywords[i]))}

\* C25: with keywords, a 2xx response and a body that is read, the website
\* runner returns failed exactly when some keyword that is not blank is,
\* after trimming, not a substring of the body, and the error then names the
\* first such keyword of the list.
C25_FailsIffTrimmedKeywordAbsent ==
  (/\ ReadsBody
   /\ call.code >= 200 /\ call.code < 300
   /\ call.text = "ok"
   /\ frame.pc = "returned")
    => /\ frame.status = "failed" <=> AbsentTrimmed # {}
       /\ frame.status = "failed"
            => \E i \in AbsentTrimmed :
                 /\ \A j \in AbsentTrimmed : i <= j
                 /\ frame.error = KeywordError(call.keywords[i])

\* -------------------------------------------------------------------- C26
\* C26: an empty or whitespace-only keyword never fails a website check.
\* When every keyword of the list that is not blank is a substring of the
\* body, as written and trimmed, the runner returns succeeded, with or
\* without blank entries in the list.
C26_BlankKeywordIgnored ==
  (/\ StatusPasses
   /\ call.text = "ok"
   /\ frame.pc = "returned"
   /\ \A i \in 1..Len(call.keywords) :
        Trim(call.keywords[i]) # <<>>
          => /\ Includes(call.body, call.keywords[i])
             /\ Includes(call.body, Trim(call.keywords[i])))
    => frame.status = "succeeded"

\* -------------------------------------------------------------------- C27
\* C27: a ping check returns succeeded exactly when the socket emits
\* 'connect' before the timeout and before an error; after 'timeout' it
\* returns failed with error "Connection timed out", after 'error' failed
\* with the message of the socket's error.
C27_PingOutcome ==
  (call.op = "ping" /\ frame.pc = "returned")
    => /\ frame.status = "succeeded"
            <=> (call.port <= MaxPort /\ call.event = "connect")
       /\ frame.status \in StatusType
       /\ (call.port <= MaxPort /\ call.event = "timeout")
            => /\ frame.status = "failed"
               /\ frame.error = MessageError(ConnectionTimedOut)
       /\ (call.port <= MaxPort /\ call.event = "error")
            => /\ frame.status = "failed"
               /\ frame.error = MessageError(call.message)

\* a ping check has returned after the socket's 'error'
C27_Witness ==
  /\ call.op = "ping"
  /\ frame.pc = "returned"
  /\ call.port <= MaxPort
  /\ call.event = "error"
  /\ frame.status = "failed"

\* -------------------------------------------------------------------- C28
\* C28: every row the routes of the owner write has a periodicity from 5 to
\* 300, and a POST or a PUT whose periodicity is a number outside that range
\* is answered with an error status and leaves the Monitor table as it was.
C28_PeriodicityInRange ==
  /\ [](\A m \in Ids :
          store[m] # NoDef
            => /\ store[m].periodicity >= MinPeriodicity
               /\ store[m].periodicity <= MaxPeriodicity)
  /\ [][(\E m \in Ids :
           \/ \E body \in PostBodies :
                /\ PostMonitor(m, body)
                /\ body.periodicity.kind = "number"
                /\ OutOfRange(body.periodicity)
           \/ \E body \in PutBodies :
                /\ PutMonitor(m, body)
                /\ body.periodicity.kind = "number"
                /\ OutOfRange(body.periodicity))
          => (frame'.code >= 400 /\ store' = store)]_vars

\* a PUT with periodicity 301 for a monitor that exists, with periodicity
\* 300, has been refused
C28_Witness ==
  /\ call.op = "PUT"
  /\ call.body.periodicity = Number(MaxPeriodicity + 1)
  /\ store[call.id] # NoDef
  /\ store[call.id].periodicity = MaxPeriodicity
  /\ frame = Respond(400)

\* -------------------------------------------------------------------- C29
\* C29: for a monitor that exists, the badge has the badge label of the
\* monitor as label; its value is "up" and its colour green when the latest
\* status of the monitor by startTime is succeeded, and its value is "down"
\* and its colour red when the latest status is failed.
C29_BadgeUpOrDown ==
  (call.op = "badge" /\ frame.code = 200)
    => LET latest == LatestStatus(call.id)
       IN /\ frame.badge.label = EncodeURIComponent(BadgeLabelOf(call.id))
          /\ (latest # 0 /\ statuses[latest].status = "succeeded")
               => (frame.badge.message = "up" /\ frame.badge.color = "green")
          /\ (latest # 0 /\ statuses[latest].status = "failed")
               => (frame.badge.message = "down" /\ frame.badge.color = "red")

\* -------------------------------------------------------------------- C30
\* what the claim says of a day with failed failures among total checks
ExpectedStatus(failed, total) ==
  IF failed = 0 THEN "success"
  ELSE IF 20 * failed <= total THEN "warning"
  ELSE "error"

\* C30: in the calendar data every day that has a check of the monitor is
\* success (green) iff none of the checks of that day failed, warning
\* (orange) iff some failed and they are at most 5% of the checks of the
\* day, and error (red) otherwise, and total and failed are the numbers of
\* the checks and of the failed checks of that day; for the data of the
\* route and for the boxes of the component.
C30_DayStatusByFailureRate ==
  /\ (call.op = "calendar" /\ frame.pc = "responded")
       => \A day \in DaysOf(call.rows) :
            \E entry \in frame.data :
              /\ entry.date = day
              /\ entry.total = TotalOn(call.rows, day)
              /\ entry.failed = FailedOn(call.rows, day)
              /\ entry.status = ExpectedStatus(entry.failed, entry.total)
  /\ (call.op = "calendar" /\ frame.pc = "rendered")
       => \A day \in DaysOf(call.rows) \cap LocalDays :
            /\ frame.boxes[day].totalChecks = TotalOn(call.rows, day)
            /\ frame.boxes[day].status =
                 Colour(ExpectedStatus(FailedOn(call.rows, day),
                                       TotalOn(call.rows, day)))

\* -------------------------------------------------------------------- C31
\* the timer chains of monitor m: its pending timers and its firings in flight
Chains(m) == Cardinality(TimersOf(m)) + Cardinality(FiringsOf(m))

\* C31: in every state an id is a key of the armed map exactly when one
\* timer chain exists for it, a pending timer or a firing in flight; no id
\* outside the map has a timer or a firing, and no id has two.
C31_MapIffOneChain ==
  \A m \in Ids :
    /\ m \in DOMAIN activeMonitors <=> Chains(m) = 1
    /\ Chains(m) <= 1

\* -------------------------------------------------------------------- C32
\* the map and the pending timers without the identity of the timer
\* objects: the keys, and for every timer its id, its delay, its closure and
\* whether the map holds its handle
Unnamed(st) ==
  [keys |-> DOMAIN st.map,
   tms |-> {[id |-> t.id, delay |-> t.delay, monitor |-> t.monitor,
             held |-> (t.id \in DOMAIN st.map /\ st.map[t.id] = t.h)] :
              t \in st.tms}]

\* C32: when scheduleMonitor is called for an id that has a pending timer,
\* that timer is cancelled before the new zero-delay timer is armed:
\* afterwards one timer is pending for the id and the map holds its handle.
\* Calling scheduleMonitor a second time with the same monitor leaves the
\* state of one call.  Stated of every call that a returning listing makes.
C32_ScheduleReplacesTimer ==
  [][\A l \in listings :
       DiscoveryReturn(l, TRUE)
         => \A m \in Listed(l.list) \ DOMAIN activeMonitors :
              LET st == [map |-> activeMonitors, tms |-> timers]
                  once == ScheduleMonitor(st, m, l.list[m])
                  twice == ScheduleMonitor(once, m, l.list[m])
              IN /\ Unnamed(twice) = Unnamed(once)
                 /\ TimersOf(m) # {}
                      => /\ Cardinality({t \in timers' : t.id = m}) = 1
                         /\ \A t \in timers' :
                              t.id = m => (t.delay = 0 /\ activeMonitors'[m] = t.h)]_vars

\* -------------------------------------------------------------------- C33
\* the runner has sent its probe, socket.connect or fetch, and awaits it
Probing == frame.pc \in {"connecting", "fetching"}

\* C33: a call of a runner makes one probe, the connect of the ping runner
\* or the GET of the website runner, sent when the call starts.  No step of
\* the call sends another, whatever the first one did, and a call that has
\* returned takes no further step: a failed probe is tried again by the
\* next firing only.
C33_OneProbePerCall ==
  [][/\ frame.pc # "returned"
     /\ ~Probing']_vars

\* a website check has returned failed after its one request was rejected
C33_Witness ==
  /\ call.op = "website"
  /\ call.fetch # "ok"
  /\ frame.pc = "returned"
  /\ frame.status = "failed"
  /\ frame.error = MessageError(call.fetch)

\* -------------------------------------------------------------------- C34
\* C34: with checkStatus not set, a response of any status code, 2xx or
\* not, gives succeeded when the list of keywords is empty or every keyword
\* that is not blank is a substring of the body, as written and trimmed; the
\* status code alone does not fail the check.
C34_StatusCodeIgnoredUnlessChecked ==
  (/\ call.op = "website"
   /\ call.fetch = "ok"
   /\ ~call.checkStatus
   /\ frame.pc = "returned"
   /\ \A i \in 1..Len(call.keywords) :
        Trim(call.keywords[i]) # <<>>
          => /\ Includes(call.body, call.keywords[i])
             /\ Includes(call.body, Trim(call.keywords[i])))
    => frame.status = "succeeded"

\* -------------------------------------------------------------------- C35
\* C35: the interval starts a discovery tick without waiting for the one
\* before, so two listings can be outstanding; in whatever order they
\* return, no id comes to have two pending timers or two timer chains, and
\* a returning listing is compared with the armed map as it is at that
\* moment.
C35_OverlappingTicksKeepOneChain ==
  /\ [](\A m \in Ids : Cardinality(TimersOf(m)) <= 1 /\ Chains(m) <= 1)
  /\ [][\A l \in listings :
          DiscoveryReturn(l, TRUE)
            => /\ activeMonitors' = Reconcile(activeMonitors, timers, l.list).map
               /\ DOMAIN activeMonitors' = Listed(l.list)]_vars

\* -------------------------------------------------------------------- C36
\* nothing of the engine is under way: no listing, no timer, no firing, no
\* entry in the map
Idle ==
  /\ listings = {}
  /\ timers = {}
  /\ firings = {}
  /\ activeMonitors = <<>>

\* C36: until the database is connected the engine runs no discovery and
\* arms no timer, and when the connection fails it exits with code 1 in
\* that state.  When it is connected, the interval of the periodic discovery
\* is installed by the step that ends the initial discovery, not before,
\* and the initial discovery is the only listing until then; the step
\* installs it also when the initial discovery failed.
C36_StartupOrder ==
  /\ [](/\ startPc = "connecting" => Idle
        /\ exitCode = 1 => (proc = "exited" /\ startPc = "connecting")
        /\ startPc = "initialDiscovery" => Cardinality(listings) <= 1)
  /\ [][/\ DbConnectFailed => (exitCode' = 1 /\ proc' = "exited" /\ Idle')
        /\ (startPc' = "started" /\ startPc # "started")
             => /\ startPc = "initialDiscovery"
                /\ \E l \in listings : listings' = listings \ {l}
        /\ DiscoveryTick(MaxListings) => startPc = "started"
        /\ \A l \in listings :
             (startPc = "initialDiscovery" /\ DiscoveryFails(l))
               => startPc' = "started"]_vars

\* the initial discovery is under way, with a monitor in its list, and the
\* interval is not installed
C36_Witness ==
  /\ startPc = "initialDiscovery"
  /\ proc = "up"
  /\ timers = {}
  /\ \E l \in listings : \E m \in Ids : l.list[m] # NoDef

====
